---- MODULE Spec2Model ----
(***************************************************************************)
(* Model of the joystick add-on's button map store (CButtonMap,            *)
(* src/src/storage/ButtonMap.cpp) and of its controller transformer        *)
(* (CControllerTransformer, src/src/buttonmapper/ControllerTransformer.cpp).*)
(*                                                                         *)
(* A driver primitive is a record [type, index]; a joystick feature is a   *)
(* record [name, type, prims]; a feature vector is a sequence of features; *)
(* a button map (std::map<std::string, FeatureVector>) is a function from  *)
(* the controller ids it holds to feature vectors.                         *)
(***************************************************************************)
EXTENDS Integers, Sequences, FiniteSets, TLC

VARIABLES
  m_buttonMap,          \* CButtonMap::m_buttonMap
  m_originalButtonMap,  \* CButtonMap::m_originalButtonMap (the backup)
  m_timestamp,          \* CButtonMap::m_timestamp
  m_bModified,          \* CButtonMap::m_bModified
  m_axesLoaded,         \* axes handed to m_device->Configuration().LoadAxisFromAPI
  now,                  \* the value P8PLATFORM::GetTimeMs() returns
  last,                 \* record of the last call made on the store
  m_observedDevices,    \* CControllerTransformer::m_observedDevices
  m_controllerMap,      \* CControllerTransformer::m_controllerMap
  lastT,                \* record of the last call made on the transformer
  features,             \* the FeatureVector handed to Sanitize
  once,                 \* that vector after one Sanitize
  twice,                \* that vector after a second Sanitize
  pc                    \* position of the Sanitize driver

storeVars == <<m_buttonMap, m_originalButtonMap, m_timestamp, m_bModified,
               m_axesLoaded, now, last>>
xfVars    == <<m_observedDevices, m_controllerMap, lastT>>
sanVars   == <<features, once, twice, pc>>
vars      == <<m_buttonMap, m_originalButtonMap, m_timestamp, m_bModified,
               m_axesLoaded, now, last, m_observedDevices, m_controllerMap,
               lastT, features, once, twice, pc>>

----------------------------------------------------------------------------
(* Strings and their order                                                 *)

\* The strings of the model in std::string (byte-wise) order.
StrOrder == <<"A", "B", "C", "a", "b", "c">>

StrRank(s) == CHOOSE i \in 1..Len(StrOrder) : StrOrder[i] = s

\* std::string operator<
StrLess(s, t) == StrRank(s) < StrRank(t)

----------------------------------------------------------------------------
(* Primitives and features                                                 *)

\* ADDON::DriverPrimitive(): JOYSTICK_DRIVER_PRIMITIVE_TYPE_UNKNOWN
Unknown == [type |-> "unknown", index |-> 0]

Button(i)   == [type |-> "button", index |-> i]
Semiaxis(i) == [type |-> "semiaxis", index |-> i]

IsValidPrimitive(p) == p.type # "unknown"

Feature(n, t, ps) == [name |-> n, type |-> t, prims |-> ps]

Scalar(n, p) == Feature(n, "scalar", <<p>>)

\* the valid primitives a feature holds, with their slots
ValidSlots(f) == {i \in 1..Len(f.prims) : IsValidPrimitive(f.prims[i])}

----------------------------------------------------------------------------
(* CButtonMap::Sanitize                                                    *)

\* "Search for prior feature with the primitive": the features before
\* iFeature, as the loop has left them, are searched for the primitive.
FoundInPriorFeature(fs, iFeature, primitive) ==
  \E iExistingFeature \in 1..(iFeature - 1) :
    \E k \in 1..Len(fs[iExistingFeature].prims) :
      fs[iExistingFeature].prims[k] = primitive

FoundInPriorPrimitiveSkipped(fs, iFeature, iPrimitive) == FALSE

\* "Search for primitive in prior primitives" of the same feature.
FoundInPriorPrimitive(fs, iFeature, iPrimitive) ==
  \E iExistingPrimitive \in 1..(iPrimitive - 1) :
    fs[iFeature].prims[iExistingPrimitive] = fs[iFeature].prims[iPrimitive]

\* One turn of the inner loop: primitive iPrimitive of feature iFeature.
SanitizePrimitive(fs, iFeature, iPrimitive) ==
  LET primitive == fs[iFeature].prims[iPrimitive]
      bFound    == \/ FoundInPriorFeature(fs, iFeature, primitive)
                   \/ FoundInPriorPrimitive(fs, iFeature, iPrimitive)
  IN  IF ~IsValidPrimitive(primitive)
        THEN fs
        ELSE IF bFound
               THEN [fs EXCEPT ![iFeature].prims[iPrimitive] = Unknown]
               ELSE fs

\* The two nested loops, from position (iFeature, iPrimitive) on.
RECURSIVE SanitizeLoop(_, _, _)
SanitizeLoop(fs, iFeature, iPrimitive) ==
  IF iFeature > Len(fs)
    THEN fs
    ELSE IF iPrimitive > Len(fs[iFeature].prims)
           THEN SanitizeLoop(fs, iFeature + 1, 1)
           ELSE SanitizeLoop(SanitizePrimitive(fs, iFeature, iPrimitive),
                             iFeature, iPrimitive + 1)

HasValidPrimitive(f) == \E i \in 1..Len(f.prims) : IsValidPrimitive(f.prims[i])

\* "Erase invalid features": erase-remove of the features with no valid
\* primitive.
EraseInvalid(fs) == SelectSeq(fs, HasValidPrimitive)

SanitizeEraseFirst(fs) == SanitizeLoop(EraseInvalid(fs), 1, 1)

Sanitize(fs) == EraseInvalid(SanitizeLoop(fs, 1, 1))

----------------------------------------------------------------------------
(* Button maps                                                             *)

\* a ButtonMap holding no controller
EmptyMap == [c \in {} |-> <<>>]

\* std::map::empty()
IsEmptyMap(m) == DOMAIN m = {}

\* the value std::map::operator[] refers to (a new entry is an empty vector)
MapAt(m, controllerId) ==
  IF controllerId \in DOMAIN m THEN m[controllerId] ELSE <<>>

\* the map after an assignment through std::map::operator[]
MapPut(m, controllerId, fs) ==
  [c \in DOMAIN m \cup {controllerId} |-> IF c = controllerId THEN fs ELSE m[c]]

FeatureNames(fs) == {fs[i].name : i \in 1..Len(fs)}

\* the comparison handed to std::sort: lhs.Name() < rhs.Name()
IsSortedByName(fs) ==
  \A i \in 1..Len(fs) : \A j \in 1..Len(fs) :
    i < j => ~StrLess(fs[j].name, fs[i].name)

SortResultsUnsorted(fs) == {fs}

\* The outcomes of std::sort, which is not stable: every arrangement of the
\* vector that is ordered by name.
SortResults(fs) ==
  {r \in {[i \in 1..Len(fs) |-> fs[p[i]]] : p \in Permutations(1..Len(fs))} :
     IsSortedByName(r)}

----------------------------------------------------------------------------
(* Bounds and inputs of the button map store                               *)

RESOURCE_LIFETIME_MS == 2000

\* the clock advances at most this many times, by one of TickSteps
MaxTicks == 3

TickSteps == {1000}

\* at most this many features are handed to one MapFeatures call
MaxNew == 2

ControllerIds == {"A", "B"}

\* the features MapFeatures is called with
NewFeaturePool ==
  { Scalar("a", Button(0)), Scalar("b", Button(0)),
    Feature("b", "analog_stick", <<Semiaxis(0), Button(0)>>) }

SeqsUpTo(S, n) == UNION {[1..k -> S] : k \in 0..n}

\* the sequences of up to n different elements of S
DistinctSeqsUpTo(S, n) ==
  {seq \in SeqsUpTo(S, n) :
     \A i \in 1..Len(seq) : \A j \in 1..Len(seq) : i # j => seq[i] # seq[j]}

\* the (controllerId, features) arguments of MapFeatures
MapInputs ==
  ({"A"} \X DistinctSeqsUpTo(NewFeaturePool, MaxNew))
    \cup ({"B"} \X {<<Scalar("a", Button(0))>>})

\* the button maps the backing resource may hold when Load() reads it
LoadPool ==
  { EmptyMap,
    [c \in {"A", "B"} |->
       IF c = "A" THEN <<Scalar("a", Button(1)), Scalar("b", Button(1))>>
                  ELSE <<Scalar("a", Button(0))>>] }

NoCall == [op |-> "none", cid |-> "", arg |-> <<>>, ret |-> FALSE,
           loads |-> 0, save |-> "none", afterMap |-> FALSE, pre |-> EmptyMap,
           reverted |-> FALSE]

----------------------------------------------------------------------------
(* CButtonMap                                                              *)

\* "Create a backup to allow revert"
Backup(original, current) ==
  IF IsEmptyMap(original) THEN current ELSE original

RemoveNothing(myFeatures, newFeatures) == myFeatures

\* "Remove features with the same name"
RemoveSameName(myFeatures, newFeatures) ==
  LET Keep(f) == f.name \notin FeatureNames(newFeatures)
  IN  SelectSeq(myFeatures, Keep)

\* "Update axis configurations": the axes given to LoadAxisFromAPI
UpdatedAxes(newFeatures) ==
  UNION {{newFeatures[i].prims[k].index :
            k \in {j \in 1..Len(newFeatures[i].prims) :
                     newFeatures[i].prims[j].type = "semiaxis"}} :
         i \in 1..Len(newFeatures)}

InsertNewBehind(myFeatures, newFeatures) == myFeatures \o newFeatures

\* myFeatures.insert(myFeatures.begin(), features.begin(), features.end())
InsertNew(myFeatures, newFeatures) == newFeatures \o myFeatures

MapFeatures(controllerId, newFeatures) ==
  LET myFeatures == RemoveSameName(MapAt(m_buttonMap, controllerId), newFeatures)
      merged     == Sanitize(InsertNew(myFeatures, newFeatures))
  IN  /\ m_originalButtonMap' = Backup(m_originalButtonMap, m_buttonMap)
      /\ m_axesLoaded' = m_axesLoaded \cup UpdatedAxes(newFeatures)
      /\ \E sorted \in SortResults(merged) :
           m_buttonMap' = MapPut(m_buttonMap, controllerId, sorted)
      /\ m_bModified' = TRUE
      /\ last' = [NoCall EXCEPT !.op = "MapFeatures", !.cid = controllerId,
                                !.arg = newFeatures, !.pre = m_buttonMap]
      /\ UNCHANGED <<m_timestamp, now>>

SavedOriginalKept(original) == original

\* the effect of a successful SaveButtonMap on the backup
SavedOriginal(original) == EmptyMap

\* SaveButtonMap; saveOk is what Save() returns
SaveButtonMap(saveOk) ==
  /\ m_timestamp' = IF saveOk THEN now ELSE m_timestamp
  /\ m_originalButtonMap' =
       IF saveOk THEN SavedOriginal(m_originalButtonMap) ELSE m_originalButtonMap
  /\ m_bModified' = IF saveOk THEN FALSE ELSE m_bModified
  /\ last' = [NoCall EXCEPT !.op = "SaveButtonMap", !.ret = saveOk,
                            !.save = IF saveOk THEN "ok" ELSE "fail"]
  /\ UNCHANGED <<m_buttonMap, m_axesLoaded, now>>

CanRevertAlways(original) == TRUE

\* what RevertButtonMap returns
CanRevert(original) == ~IsEmptyMap(original)

RevertButtonMap ==
  /\ m_buttonMap' =
       IF CanRevert(m_originalButtonMap) THEN m_originalButtonMap ELSE m_buttonMap
  /\ last' = [NoCall EXCEPT !.op = "RevertButtonMap",
                            !.ret = CanRevert(m_originalButtonMap),
                            !.reverted = CanRevert(m_originalButtonMap),
                            !.afterMap = (last.op = "MapFeatures"),
                            !.pre = IF last.op = "MapFeatures" THEN last.pre
                                                              ELSE EmptyMap]
  /\ UNCHANGED <<m_originalButtonMap, m_timestamp, m_bModified, m_axesLoaded, now>>

\* ResetButtonMap; saveOk is what Save() returns when it is reached
ResetButtonMap(controllerId, saveOk) ==
  LET wasEmpty == MapAt(m_buttonMap, controllerId) = <<>>
      saved    == ~wasEmpty /\ saveOk
  IN  /\ m_buttonMap' = MapPut(m_buttonMap, controllerId, <<>>)
      /\ m_timestamp' = IF saved THEN now ELSE m_timestamp
      /\ m_originalButtonMap' =
           IF saved THEN SavedOriginal(m_originalButtonMap) ELSE m_originalButtonMap
      /\ m_bModified' = IF saved THEN FALSE ELSE m_bModified
      /\ last' = [NoCall EXCEPT !.op = "ResetButtonMap", !.cid = controllerId,
                                !.ret = saved,
                                !.save = IF wasEmpty THEN "none"
                                         ELSE IF saveOk THEN "ok" ELSE "fail"]
      /\ UNCHANGED <<m_axesLoaded, now>>

ExpiredStrict(timestamp, t) == t > timestamp + RESOURCE_LIFETIME_MS

\* now >= expires, with expires = m_timestamp + RESOURCE_LIFETIME_MS
Expired(timestamp, t) == t >= timestamp + RESOURCE_LIFETIME_MS

\* Sanitize(it->first, it->second) for every controller of the map
SanitizeAll(m) == [c \in DOMAIN m |-> Sanitize(m[c])]

\* The members Refresh leaves; loadOk and loaded are what Load() returns
\* and reads when it is reached.
Refreshed(loadOk, loaded) ==
  IF Expired(m_timestamp, now) /\ loadOk
    THEN [map |-> SanitizeAll(loaded), timestamp |-> now, original |-> EmptyMap]
    ELSE [map |-> m_buttonMap, timestamp |-> m_timestamp,
          original |-> m_originalButtonMap]

Refresh(loadOk, loaded) ==
  /\ m_buttonMap' = Refreshed(loadOk, loaded).map
  /\ m_timestamp' = Refreshed(loadOk, loaded).timestamp
  /\ m_originalButtonMap' = Refreshed(loadOk, loaded).original
  /\ last' = [NoCall EXCEPT !.op = "Refresh",
                            !.ret = (Expired(m_timestamp, now) => loadOk),
                            !.loads = IF Expired(m_timestamp, now) THEN 1 ELSE 0]
  /\ UNCHANGED <<m_bModified, m_axesLoaded, now>>

NeedsRefreshAlways(bModified) == TRUE

\* if (!m_bModified) Refresh();
NeedsRefresh(bModified) == ~bModified

GetButtonMap(loadOk, loaded) ==
  LET refresh == NeedsRefresh(m_bModified)
      after   == IF refresh THEN Refreshed(loadOk, loaded)
                 ELSE [map |-> m_buttonMap, timestamp |-> m_timestamp,
                       original |-> m_originalButtonMap]
  IN  /\ m_buttonMap' = after.map
      /\ m_timestamp' = after.timestamp
      /\ m_originalButtonMap' = after.original
      /\ last' = [NoCall EXCEPT !.op = "GetButtonMap", !.ret = TRUE,
                    !.reverted = last.reverted,
                    !.loads = IF refresh /\ Expired(m_timestamp, now) THEN 1 ELSE 0]
      /\ UNCHANGED <<m_bModified, m_axesLoaded, now>>

\* P8PLATFORM::GetTimeMs() moves on between two calls
Tick(d) ==
  /\ now + d <= MaxTicks * 1000
  /\ now' = now + d
  /\ UNCHANGED <<m_buttonMap, m_originalButtonMap, m_timestamp, m_bModified,
                 m_axesLoaded, last>>

\* the transformer before any call
XfInit ==
  /\ m_observedDevices = {}
  /\ m_controllerMap = EmptyMap
  /\ lastT = [op |-> "none"]

\* the Sanitize driver at rest
SanIdle ==
  /\ features = <<>>
  /\ once = <<>>
  /\ twice = <<>>
  /\ pc = "idle"

\* CButtonMap::CButtonMap
StoreInit ==
  /\ m_buttonMap = EmptyMap
  /\ m_originalButtonMap = EmptyMap
  /\ m_timestamp = -1
  /\ m_bModified = FALSE
  /\ m_axesLoaded = {}
  /\ now = 0
  /\ last = NoCall

Init == StoreInit /\ XfInit /\ SanIdle

\* a call on the store leaves the transformer and the Sanitize driver alone
OnStore(call) == call /\ UNCHANGED <<xfVars, sanVars>>

Next ==
  \/ \E in \in MapInputs : OnStore(MapFeatures(in[1], in[2]))
  \/ \E saveOk \in BOOLEAN : OnStore(SaveButtonMap(saveOk))
  \/ OnStore(RevertButtonMap)
  \/ \E controllerId \in ControllerIds, saveOk \in BOOLEAN :
       OnStore(ResetButtonMap(controllerId, saveOk))
  \/ \E loadOk \in BOOLEAN, loaded \in LoadPool : OnStore(Refresh(loadOk, loaded))
  \/ \E loadOk \in BOOLEAN, loaded \in LoadPool :
       OnStore(GetButtonMap(loadOk, loaded))
  \/ \E d \in TickSteps : OnStore(Tick(d))

\* the button map store under every sequence of calls
Spec == Init /\ [][Next]_vars

----------------------------------------------------------------------------
(* CControllerTransformer                                                  *)
(*                                                                         *)
(* A FeatureTranslation is a pair <<fromFeature, toFeature>>, a FeatureMap *)
(* a set of them, a FeatureMaps bucket a function from FeatureMaps to      *)
(* counts, and m_controllerMap a function from ControllerTranslation keys  *)
(* <<controllerFrom, controllerTo>> to buckets.                            *)

ObservedDevicesCeiling == 200

\* feature.Primitive(slot); a slot the feature type does not use is unknown
Primitive(f, slot) == IF slot <= Len(f.prims) THEN f.prims[slot] ELSE Unknown

\* The predicate AddControllerMap hands to std::find_if: same feature type
\* and, per type, equal primitives in the slots of that type.
PrimitivesMatch(fromFeature, feature) ==
  /\ fromFeature.type = feature.type
  /\ CASE feature.type \in {"scalar", "motor"} ->
            Primitive(fromFeature, 1) = Primitive(feature, 1)
       [] feature.type = "analog_stick" ->
            \A slot \in 1..4 : Primitive(fromFeature, slot) = Primitive(feature, slot)
       [] feature.type = "accelerometer" ->
            \A slot \in 1..3 : Primitive(fromFeature, slot) = Primitive(feature, slot)
       [] OTHER -> FALSE

\* std::find_if over featuresTo: the indexes of the first match (none or one)
FirstMatch(fromFeature, featuresTo) ==
  {i \in 1..Len(featuresTo) :
     /\ PrimitivesMatch(fromFeature, featuresTo[i])
     /\ \A j \in 1..(i - 1) : ~PrimitivesMatch(fromFeature, featuresTo[j])}

\* the FeatureMap AddControllerMap builds from two feature vectors
TranslationSet(featuresFrom, featuresTo) ==
  {<<featuresFrom[i].name, featuresTo[j].name>> :
     <<i, j>> \in {ij \in (1..Len(featuresFrom)) \X (1..Len(featuresTo)) :
                     ij[2] \in FirstMatch(featuresFrom[ij[1]], featuresTo)}}

CountedTwice(featureMaps, translations) ==
  [fm \in DOMAIN featureMaps \cup {translations} |->
     IF fm = translations
       THEN (IF fm \in DOMAIN featureMaps THEN featureMaps[fm] + 2 ELSE 2)
       ELSE featureMaps[fm]]

\* ++it->second, or insert(make_pair(features, 1))
Counted(featureMaps, translations) ==
  [fm \in DOMAIN featureMaps \cup {translations} |->
     IF fm = translations
       THEN (IF fm \in DOMAIN featureMaps THEN featureMaps[fm] + 1 ELSE 1)
       ELSE featureMaps[fm]]

\* m_controllerMap[key]: the bucket operator[] refers to
BucketAt(controllerMap, key) ==
  IF key \in DOMAIN controllerMap THEN controllerMap[key] ELSE EmptyMap

AddControllerMapAlways(controllerMap, controllerFrom, featuresFrom, controllerTo, featuresTo) ==
  LET key          == <<controllerFrom, controllerTo>>
      translations == TranslationSet(featuresFrom, featuresTo)
  IN  MapPut(controllerMap, key, Counted(BucketAt(controllerMap, key), translations))

\* AddControllerMap: the controller map it leaves
AddControllerMap(controllerMap, controllerFrom, featuresFrom, controllerTo, featuresTo) ==
  LET key          == <<controllerFrom, controllerTo>>
      translations == TranslationSet(featuresFrom, featuresTo)
  IN  IF translations # {}
        THEN MapPut(controllerMap, key, Counted(BucketAt(controllerMap, key), translations))
        ELSE controllerMap

\* the (itFrom, itTo) pairs the loops of OnAdd visit
ControllerPairs(buttonMap) ==
  {ft \in (DOMAIN buttonMap) \X (DOMAIN buttonMap) : StrLess(ft[1], ft[2])}

\* the loops of OnAdd over the pairs still to visit
RECURSIVE AddControllerMaps(_, _, _)
AddControllerMaps(controllerMap, buttonMap, pairs) ==
  IF pairs = {}
    THEN controllerMap
    ELSE LET ft == CHOOSE x \in pairs : TRUE
         IN  AddControllerMaps(
               AddControllerMap(controllerMap, ft[1], buttonMap[ft[1]],
                                ft[2], buttonMap[ft[2]]),
               buttonMap, pairs \ {ft})

SanityCheckLoose(observedDevices) ==
  Cardinality(observedDevices) > ObservedDevicesCeiling + 1

\* "Santity check"
SanityCheck(observedDevices) ==
  Cardinality(observedDevices) > ObservedDevicesCeiling

AlreadyObservedNever(observedDevices, driverInfo) == FALSE

\* "Skip devices we've already encountered."
AlreadyObserved(observedDevices, driverInfo) == driverInfo \in observedDevices

OnAdd(driverInfo, buttonMap) ==
  LET accepted == /\ ~SanityCheck(m_observedDevices)
                  /\ ~AlreadyObserved(m_observedDevices, driverInfo)
  IN  /\ m_observedDevices' =
           IF accepted THEN m_observedDevices \cup {driverInfo} ELSE m_observedDevices
      /\ m_controllerMap' =
           IF accepted
             THEN AddControllerMaps(m_controllerMap, buttonMap, ControllerPairs(buttonMap))
             ELSE m_controllerMap
      /\ lastT' = [op |-> "OnAdd", device |-> driverInfo, map |-> buttonMap,
                   accepted |-> accepted]

\* FeatureTranslation operator<: by fromFeature, then by toFeature
TranslationLess(e1, e2) ==
  \/ StrLess(e1[1], e2[1])
  \/ e1[1] = e2[1] /\ StrLess(e1[2], e2[2])

\* the FeatureTranslations of a FeatureMap (std::set) in iteration order
RECURSIVE TranslationsInOrder(_)
TranslationsInOrder(fm) ==
  IF fm = {}
    THEN <<>>
    ELSE LET least == CHOOSE x \in fm : \A y \in fm \ {x} : TranslationLess(x, y)
         IN  <<least>> \o TranslationsInOrder(fm \ {least})

\* std::set operator<, i.e. std::lexicographical_compare of two FeatureMaps
FeatureMapLess(fm1, fm2) ==
  LET s1 == TranslationsInOrder(fm1)
      s2 == TranslationsInOrder(fm2)
  IN  \/ \E i \in 1..Len(s1) :
           /\ i <= Len(s2)
           /\ \A j \in 1..(i - 1) : s1[j] = s2[j]
           /\ TranslationLess(s1[i], s2[i])
      \/ /\ Len(s1) < Len(s2)
         /\ \A j \in 1..Len(s1) : s1[j] = s2[j]

\* the keys of a FeatureMaps bucket (std::map) in iteration order
RECURSIVE FeatureMapsInOrder(_)
FeatureMapsInOrder(fms) ==
  IF fms = {}
    THEN <<>>
    ELSE LET least == CHOOSE x \in fms : \A y \in fms \ {x} : FeatureMapLess(x, y)
         IN  <<least>> \o FeatureMapsInOrder(fms \ {least})

IsBetterOrEqual(count, maxCount) == count >= maxCount

\* count > maxCount
IsBetter(count, maxCount) == count > maxCount

\* The loop over featureMaps from position i on; best is the set holding
\* what bestFeatureMap points to (empty for nullptr).
RECURSIVE BestLoop(_, _, _, _, _)
BestLoop(featureMaps, order, i, maxCount, best) ==
  IF i > Len(order)
    THEN best
    ELSE IF IsBetter(featureMaps[order[i]], maxCount)
           THEN BestLoop(featureMaps, order, i + 1, featureMaps[order[i]], {order[i]})
           ELSE BestLoop(featureMaps, order, i + 1, maxCount, best)

BestFeatureMap(featureMaps) ==
  BestLoop(featureMaps, FeatureMapsInOrder(DOMAIN featureMaps), 1, 0, {})

ResolvedFromUnswapped(featurePair, bSwap) == featurePair[1]

\* bSwap ? featurePair.toFeature : featurePair.fromFeature
ResolvedFrom(featurePair, bSwap) ==
  IF bSwap THEN featurePair[2] ELSE featurePair[1]

\* bSwap ? featurePair.fromFeature : featurePair.toFeature
ResolvedTo(featurePair, bSwap) ==
  IF bSwap THEN featurePair[1] ELSE featurePair[2]

\* std::find_if by name: the indexes of the first feature of that name
FirstNamed(fs, name) ==
  {i \in 1..Len(fs) :
     fs[i].name = name /\ \A j \in 1..(i - 1) : fs[j].name # name}

\* The loop over the pairs of the best feature map from position i on:
\* what it appends to transformedFeatures.
RECURSIVE TransformLoop(_, _, _, _)
TransformLoop(pairs, i, bSwap, fs) ==
  IF i > Len(pairs)
    THEN <<>>
    ELSE LET itFrom == FirstNamed(fs, ResolvedFrom(pairs[i], bSwap))
             rest   == TransformLoop(pairs, i + 1, bSwap, fs)
         IN  IF itFrom # {}
               THEN <<[fs[CHOOSE k \in itFrom : TRUE]
                         EXCEPT !.name = ResolvedTo(pairs[i], bSwap)]>> \o rest
               ELSE rest

\* bSwap = (fromController >= toController)
Swap(fromController, toController) == ~StrLess(fromController, toController)

Needle(fromController, toController) ==
  IF Swap(fromController, toController)
    THEN <<toController, fromController>>
    ELSE <<fromController, toController>>

\* what TransformFeatures appends to an empty transformedFeatures
Transformed(controllerMap, fromController, toController, fs) ==
  LET best == BestFeatureMap(BucketAt(controllerMap, Needle(fromController, toController)))
  IN  IF best = {}
        THEN <<>>
        ELSE TransformLoop(TranslationsInOrder(CHOOSE fm \in best : TRUE), 1,
                           Swap(fromController, toController), fs)

\* FeatureMaps& featureMaps = m_controllerMap[needle]
WithNeedle(controllerMap, needle) ==
  MapPut(controllerMap, needle, BucketAt(controllerMap, needle))

TransformFeatures(fromController, toController, fs) ==
  /\ m_controllerMap' = WithNeedle(m_controllerMap, Needle(fromController, toController))
  /\ lastT' = [op |-> "TransformFeatures", from |-> fromController,
               to |-> toController, arg |-> fs,
               out |-> Transformed(m_controllerMap, fromController, toController, fs)]
  /\ UNCHANGED m_observedDevices

----------------------------------------------------------------------------
(* Bounds and inputs of the transformer                                    *)

\* the devices that exist under SpecTransformer
MaxDevices == 8

\* the devices that exist under SpecCeiling
MaxCrowd == 203

Stick(n, up, down, right, left) ==
  Feature(n, "analog_stick", <<up, down, right, left>>)

\* a button map with the controllers A and B
MapAB(featuresA, featuresB) ==
  [c \in {"A", "B"} |-> IF c = "A" THEN featuresA ELSE featuresB]

\* The button maps devices are observed with, one of them with a third
\* controller.  Each feature vector is as the store hands it out: sanitized,
\* with distinct names, sorted by name.
DeviceMaps ==
  { EmptyMap,
    MapAB(<<Scalar("a", Button(0)), Scalar("b", Button(1)),
            Stick("c", Semiaxis(0), Semiaxis(1), Semiaxis(2), Semiaxis(3))>>,
          <<Scalar("a", Button(0)),
            Stick("b", Semiaxis(0), Semiaxis(1), Semiaxis(2), Semiaxis(3)),
            Scalar("c", Button(1))>>),
    MapAB(<<Scalar("a", Button(0)), Scalar("b", Button(1))>>,
          <<Scalar("a", Button(1)), Scalar("c", Button(0))>>),
    [c \in {"A", "B", "C"} |->
       IF c = "A" THEN <<Scalar("a", Button(0))>>
       ELSE IF c = "B" THEN <<Scalar("c", Button(0))>>
       ELSE <<Scalar("b", Button(0))>>],
    MapAB(<<Scalar("a", Button(0)), Feature("b", "unknown", <<Button(1)>>)>>,
          <<Feature("b", "motor", <<Button(0)>>),
            Feature("c", "unknown", <<Button(1)>>)>>) }

\* the one button map devices are observed with under SpecCeiling
CrowdMaps == {MapAB(<<Scalar("a", Button(0))>>, <<Scalar("c", Button(0))>>)}

\* the feature vectors TransformFeatures is called with
TransformArgs ==
  { <<>>,
    <<Scalar("a", Button(0)), Scalar("b", Button(1))>>,
    <<Scalar("c", Button(1)), Scalar("a", Button(0))>> }

\* The devices OnAdd is called with: the first and the latest device already
\* observed, and the next device not yet observed, of maxDevices that exist.
\* (Devices are numbered in the order they are first observed.)
DeviceChoices(maxDevices) ==
  LET n == Cardinality(m_observedDevices)
  IN  {d \in {1, n, n + 1} : 1 <= d /\ d <= maxDevices}

\* a call on the transformer leaves the store and the Sanitize driver alone
OnTransformer(call) == call /\ UNCHANGED <<storeVars, sanVars>>

TransformerInit == StoreInit /\ XfInit /\ SanIdle

TransformerNext ==
  \/ \E driverInfo \in DeviceChoices(MaxDevices), buttonMap \in DeviceMaps :
       OnTransformer(OnAdd(driverInfo, buttonMap))
  \/ \E fromController \in ControllerIds, toController \in ControllerIds,
        fs \in TransformArgs :
       OnTransformer(TransformFeatures(fromController, toController, fs))

\* the transformer under every sequence of calls, with few devices
SpecTransformer == TransformerInit /\ [][TransformerNext]_vars

CeilingNext ==
  \/ \E driverInfo \in DeviceChoices(MaxCrowd), buttonMap \in CrowdMaps :
       OnTransformer(OnAdd(driverInfo, buttonMap))
  \/ \E fs \in {<<Scalar("a", Button(0))>>} :
       OnTransformer(TransformFeatures("A", "B", fs))

\* the transformer with more devices than its ceiling
SpecCeiling == TransformerInit /\ [][CeilingNext]_vars

----------------------------------------------------------------------------
(* Sanitize on its own: every feature vector of up to MaxFeatures features *)
(* of SanitizePool is sanitized once, and the result a second time.        *)

MaxFeatures == 3

PrimitivePool == {Unknown, Button(0), Button(1)}

SanitizePool ==
  {Feature("a", "scalar", ps) : ps \in [1..1 -> PrimitivePool]}
    \cup {Feature("a", "analog_stick", ps) : ps \in [1..2 -> PrimitivePool]}
    \cup {Scalar("b", Button(0)),
          Feature("b", "analog_stick", <<Button(1), Button(0)>>)}

SanitizeInit ==
  /\ features \in SeqsUpTo(SanitizePool, MaxFeatures)
  /\ once = <<>>
  /\ twice = <<>>
  /\ pc = "start"
  /\ StoreInit
  /\ XfInit

SanitizeOnce ==
  /\ pc = "start"
  /\ once' = Sanitize(features)
  /\ pc' = "once"
  /\ UNCHANGED <<features, twice, storeVars, xfVars>>

SanitizeTwice ==
  /\ pc = "once"
  /\ twice' = Sanitize(once)
  /\ pc' = "twice"
  /\ UNCHANGED <<features, once, storeVars, xfVars>>

SanitizeNext == SanitizeOnce \/ SanitizeTwice

SpecSanitize == SanitizeInit /\ [][SanitizeNext]_vars

\* the occurrences (feature, slot) of valid primitive p in a vector
Occurrences(fs, p) ==
  UNION {{<<i, k>> : k \in {j \in 1..Len(fs[i].prims) : fs[i].prims[j] = p}} :
         i \in 1..Len(fs)}

\* C2: after Sanitize no valid primitive occurs in two surviving features
\* nor twice within one, and every surviving feature keeps at least one
\* valid primitive.
C2_SanitizePostcondition ==
  pc \in {"once", "twice"} =>
    /\ \A p \in PrimitivePool \ {Unknown} : Cardinality(Occurrences(once, p)) <= 1
    /\ \A i \in 1..Len(once) : ValidSlots(once[i]) # {}

\* a vector with a primitive shared by two features and doubled within one
\* has been sanitized, and a feature of it was erased
C2_Witness ==
  /\ pc = "once"
  /\ Len(features) = 3
  /\ Len(once) = 2
  /\ \E i \in 1..3 : features[i].prims = <<Button(0), Button(0)>>
  /\ \E i \in 1..2 : once[i].prims = <<Button(0), Unknown>>

\* C10: Sanitize is idempotent: sanitizing a sanitized vector gives the same
\* features, in the same order, with the same primitive in every slot.
C10_SanitizeIdempotent == pc = "twice" => twice = once

\* the first Sanitize invalidated a primitive and erased a feature, and the
\* second has run on what was left
C10_Witness ==
  /\ pc = "twice"
  /\ Len(once) = 2
  /\ Len(features) = 3
  /\ \E i \in 1..2 : Unknown \in {once[i].prims[k] : k \in 1..Len(once[i].prims)}
                      /\ features[i].prims = once[i].prims

----------------------------------------------------------------------------
(* Claims about the button map store, checked under Spec                   *)

\* the step is a call of the store (the clock stands still) that `last'
\* records as op
IsCall(op) == last'.op = op /\ now' = now

\* C1: a RevertButtonMap issued directly after a MapFeatures call returns
\* true and leaves the button map as it was immediately before that
\* MapFeatures call, also when the map was empty before the call and when
\* an earlier unsaved MapFeatures preceded it.
C1_RevertRestoresPreviousMap ==
  (last.op = "RevertButtonMap" /\ last.afterMap) =>
    (last.ret /\ m_buttonMap = last.pre)

\* C7: whenever the backing save fails, the call that attempted it
\* (SaveButtonMap or ResetButtonMap) returns false and leaves the button
\* map, the backup, the modified flag and the timestamp as they were.
C7_FailedSaveChangesNothing ==
  [][(last'.save = "fail" /\ last'.op \in {"SaveButtonMap", "ResetButtonMap"})
       => /\ last'.ret = FALSE
          /\ UNCHANGED <<m_buttonMap, m_originalButtonMap, m_bModified,
                         m_timestamp>>]_vars

\* C8 as stated: on a store with no unsaved modification that was refreshed
\* or saved before, GetButtonMap attempts a load exactly when more than
\* RESOURCE_LIFETIME_MS have elapsed since the timestamp, and no load
\* otherwise.
C8_LoadOnlyAfterWindow ==
  [][(IsCall("GetButtonMap") /\ ~m_bModified /\ m_timestamp >= 0)
       => last'.loads =
            IF now - m_timestamp > RESOURCE_LIFETIME_MS THEN 1 ELSE 0]_vars

\* C8 as amended: on such a store GetButtonMap attempts exactly one load
\* when RESOURCE_LIFETIME_MS or more have elapsed since the timestamp
\* (now >= m_timestamp + RESOURCE_LIFETIME_MS), and none when less has.
C8_LoadFromWindowOn ==
  [][(IsCall("GetButtonMap") /\ ~m_bModified /\ m_timestamp >= 0)
       => last'.loads =
            IF now - m_timestamp >= RESOURCE_LIFETIME_MS THEN 1 ELSE 0]_vars

\* GetButtonMap was called on an unmodified store inside the window of a
\* refresh or save made at an earlier time, and attempted no load
C8_Witness ==
  /\ last.op = "GetButtonMap"
  /\ last.loads = 0
  /\ ~m_bModified
  /\ m_timestamp >= 0
  /\ now > m_timestamp
  /\ now - m_timestamp < RESOURCE_LIFETIME_MS

\* feature g may come from the new definition n: same name and type, and in
\* every slot the primitive of n or the unknown primitive
DerivedFrom(g, n) ==
  /\ g.name = n.name
  /\ g.type = n.type
  /\ Len(g.prims) = Len(n.prims)
  /\ \A k \in 1..Len(g.prims) : g.prims[k] \in {n.prims[k], Unknown}

\* C9: after MapFeatures(controllerId, newFeatures), every feature of the
\* profile whose name is a name of newFeatures comes from a new definition
\* (its primitives are those of the new definition or unknown), and there
\* are no more features of that name than new definitions of it.
C9_MergeReplace ==
  last.op = "MapFeatures" =>
    LET fs == m_buttonMap[last.cid]
    IN  \A i \in 1..Len(fs) :
          fs[i].name \in FeatureNames(last.arg) =>
            /\ \E j \in 1..Len(last.arg) : DerivedFrom(fs[i], last.arg[j])
            /\ Cardinality({k \in 1..Len(fs) : fs[k].name = fs[i].name})
                 <= Cardinality({j \in 1..Len(last.arg) :
                                   last.arg[j].name = fs[i].name})

\* MapFeatures was called with a feature whose name the profile held with
\* other primitives, and the profile now holds the new definition
C9_Witness ==
  /\ last.op = "MapFeatures"
  /\ last.cid \in DOMAIN last.pre
  /\ \E i \in 1..Len(last.pre[last.cid]) : \E j \in 1..Len(last.arg) :
       /\ last.pre[last.cid][i].name = last.arg[j].name
       /\ last.pre[last.cid][i].prims # last.arg[j].prims
       /\ \E k \in 1..Len(m_buttonMap[last.cid]) :
            m_buttonMap[last.cid][k] = last.arg[j]

\* C11: after every MapFeatures(controllerId, newFeatures) call the feature
\* vector of controllerId is sorted by feature name in ascending order.
C11_SortedAfterMapFeatures ==
  last.op = "MapFeatures" =>
    /\ last.cid \in DOMAIN m_buttonMap
    /\ IsSortedByName(m_buttonMap[last.cid])

\* MapFeatures put a new feature in front of an existing feature with a
\* lower name, both are in the profile, and the profile is sorted
C11_Witness ==
  /\ last.op = "MapFeatures"
  /\ last.cid \in DOMAIN last.pre
  /\ LET before == InsertNew(RemoveSameName(last.pre[last.cid], last.arg), last.arg)
     IN  /\ ~IsSortedByName(Sanitize(before))
         /\ Len(m_buttonMap[last.cid]) = Len(Sanitize(before))
         /\ Len(m_buttonMap[last.cid]) >= 2

\* the members of the store other than the axis configuration
storeMembers == <<m_buttonMap, m_originalButtonMap, m_bModified, m_timestamp>>

\* C12: in every state with the modified flag clear the backup is empty, and
\* a RevertButtonMap called in such a state returns false and leaves the
\* current map (and the rest of the store) as it was.
C12_NothingToRevert ==
  /\ [](~m_bModified => IsEmptyMap(m_originalButtonMap))
  /\ [][(IsCall("RevertButtonMap") /\ ~m_bModified)
          => (last'.ret = FALSE /\ UNCHANGED storeMembers)]_vars

\* RevertButtonMap was refused on a store whose features were saved before
C12_Witness ==
  /\ last.op = "RevertButtonMap"
  /\ ~last.ret
  /\ ~m_bModified
  /\ m_timestamp >= 0
  /\ \E c \in DOMAIN m_buttonMap : m_buttonMap[c] # <<>>

\* The conflicts of a MapFeatures call: the slots <<i, k>> of the existing
\* features, with a name that is not a name of the new features, that hold a
\* valid primitive a new feature holds too.
Conflicts(existing, newFeatures) ==
  {ik \in UNION {{<<i, k>> : k \in ValidSlots(existing[i])} :
                   i \in 1..Len(existing)} :
     /\ existing[ik[1]].name \notin FeatureNames(newFeatures)
     /\ \E j \in 1..Len(newFeatures) : \E l \in 1..Len(newFeatures[j].prims) :
          newFeatures[j].prims[l] = existing[ik[1]].prims[ik[2]]}

\* the features of fs that hold primitive p
Holders(fs, p) ==
  {i \in 1..Len(fs) : \E k \in 1..Len(fs[i].prims) : fs[i].prims[k] = p}

\* C14 as stated: when a new feature uses a primitive an existing feature of
\* another name holds, after MapFeatures the primitive is still held by the
\* existing feature and by no new feature.
C14_ExistingFeatureWins ==
  (last.op = "MapFeatures" /\ last.cid \in DOMAIN last.pre) =>
    LET existing == last.pre[last.cid]
        fs       == m_buttonMap[last.cid]
    IN  \A ik \in Conflicts(existing, last.arg) :
          LET holders == Holders(fs, existing[ik[1]].prims[ik[2]])
          IN  /\ holders # {}
              /\ \A h \in holders : fs[h].name = existing[ik[1]].name

\* C14 as amended: MapFeatures inserts the new features in front of the
\* existing ones, so when a new feature uses a primitive an existing feature
\* of another name holds, after MapFeatures the primitive is held by a new
\* feature and by no feature with the existing feature's name.
C14_NewFeatureWins ==
  (last.op = "MapFeatures" /\ last.cid \in DOMAIN last.pre) =>
    LET existing == last.pre[last.cid]
        fs       == m_buttonMap[last.cid]
    IN  \A ik \in Conflicts(existing, last.arg) :
          LET holders == Holders(fs, existing[ik[1]].prims[ik[2]])
          IN  /\ holders # {}
              /\ \A h \in holders : fs[h].name \in FeatureNames(last.arg)

\* MapFeatures was called with a feature using a primitive of an existing
\* feature of another name, and that existing feature is still in the
\* profile with the unknown primitive in the slot
C14_Witness ==
  /\ last.op = "MapFeatures"
  /\ last.cid \in DOMAIN last.pre
  /\ LET existing == last.pre[last.cid]
         fs       == m_buttonMap[last.cid]
     IN  \E ik \in Conflicts(existing, last.arg) : \E h \in 1..Len(fs) :
           /\ fs[h].name = existing[ik[1]].name
           /\ fs[h].type = existing[ik[1]].type
           /\ fs[h].prims[ik[2]] = Unknown

\* C17: from a MapFeatures call until the next successful save the modified
\* flag is set (MapFeatures sets it, only a successful save clears it), and
\* while it is set a GetButtonMap call attempts no load, whatever time has
\* elapsed, and leaves the locally modified map as it is.
C17_NoReloadWhileModified ==
  /\ [](last.op = "MapFeatures" => m_bModified)
  /\ [][(m_bModified /\ ~m_bModified') => last'.save = "ok"]_vars
  /\ [][(IsCall("GetButtonMap") /\ m_bModified)
          => (last'.loads = 0 /\ UNCHANGED storeMembers)]_vars

\* GetButtonMap was called on a modified store whose timestamp had expired
\* and attempted no load
C17_Witness ==
  /\ last.op = "GetButtonMap"
  /\ last.loads = 0
  /\ m_bModified
  /\ m_timestamp >= 0
  /\ Expired(m_timestamp, now)
  /\ \E c \in DOMAIN m_buttonMap : m_buttonMap[c] # <<>>

\* C18: ResetButtonMap(controllerId) on a profile that is empty or absent
\* returns false, saves nothing and leaves the current map (with its set of
\* controller ids), the backup, the modified flag and the timestamp as they
\* were.
C18_ResetOfEmptyChangesNothing ==
  [][(IsCall("ResetButtonMap") /\ MapAt(m_buttonMap, last'.cid) = <<>>)
       => /\ last'.ret = FALSE
          /\ last'.save = "none"
          /\ UNCHANGED storeMembers]_vars

\* C20: a successful RevertButtonMap sets the current map to the backup and
\* leaves the backup, the modified flag and the timestamp as they were; a
\* second RevertButtonMap right after it returns true too and leaves the
\* same map; and the GetButtonMap calls that follow a successful revert
\* attempt no load and leave the reverted map in place.
C20_RevertChangesOnlyTheMap ==
  /\ [][(IsCall("RevertButtonMap") /\ last'.ret)
          => /\ m_buttonMap' = m_originalButtonMap
             /\ UNCHANGED <<m_originalButtonMap, m_bModified, m_timestamp>>]_vars
  /\ [][(IsCall("RevertButtonMap") /\ last.op = "RevertButtonMap" /\ last.ret)
          => (last'.ret /\ m_buttonMap' = m_buttonMap)]_vars
  /\ [][(IsCall("GetButtonMap") /\ last.reverted)
          => /\ last'.loads = 0
             /\ m_buttonMap = m_originalButtonMap
             /\ UNCHANGED storeMembers]_vars

\* after a successful revert GetButtonMap was called with the timestamp
\* expired, attempted no load and left the reverted map
C20_Witness ==
  /\ last.op = "GetButtonMap"
  /\ last.reverted
  /\ last.loads = 0
  /\ m_timestamp >= 0
  /\ Expired(m_timestamp, now)
  /\ m_buttonMap = m_originalButtonMap
  /\ \E c \in DOMAIN m_buttonMap : m_buttonMap[c] # <<>>

----------------------------------------------------------------------------
(* Claims about the transformer                                            *)

\* C3 as stated: once ObservedDevicesCeiling (200) devices are observed,
\* OnAdd of a further device changes neither the observed devices nor the
\* controller map.
C3_NoOpFromCeilingOn ==
  [][(Cardinality(m_observedDevices) >= ObservedDevicesCeiling
        /\ lastT'.op = "OnAdd")
       => UNCHANGED <<m_observedDevices, m_controllerMap>>]_vars

\* C3 as amended: once more than ObservedDevicesCeiling devices (201) are
\* observed, OnAdd of a further device changes neither the observed devices
\* nor the controller map, so never more than 201 devices are observed.
C3_NoOpAboveCeiling ==
  /\ [](Cardinality(m_observedDevices) <= ObservedDevicesCeiling + 1)
  /\ [][(Cardinality(m_observedDevices) > ObservedDevicesCeiling
           /\ lastT'.op = "OnAdd")
          => UNCHANGED <<m_observedDevices, m_controllerMap>>]_vars

\* with 201 devices observed, OnAdd was called with a 202nd and refused it
C3_Witness ==
  /\ Cardinality(m_observedDevices) = ObservedDevicesCeiling + 1
  /\ lastT.op = "OnAdd"
  /\ ~lastT.accepted
  /\ lastT.device \notin m_observedDevices

\* C4: TransformFeatures leaves the controller map (its keys, its buckets,
\* every count) and the observed devices as they were.
C4_TransformChangesNothing ==
  [][lastT'.op = "TransformFeatures"
       => UNCHANGED <<m_controllerMap, m_observedDevices>>]_vars

\* what applying the translation set fm to the feature vector fs gives: for
\* each of its entries, in the order of the set, whose resolved "from" name
\* is a name of fs, the first feature of that name under the "to" name
Applied(fm, bSwap, fs) ==
  LET From(e) == IF bSwap THEN e[2] ELSE e[1]
      To(e)   == IF bSwap THEN e[1] ELSE e[2]
      hits    == TranslationsInOrder({e \in fm : From(e) \in FeatureNames(fs)})
  IN  [i \in 1..Len(hits) |->
         [fs[CHOOSE k \in 1..Len(fs) :
               fs[k].name = From(hits[i])
                 /\ \A j \in 1..(k - 1) : fs[j].name # From(hits[i])]
            EXCEPT !.name = To(hits[i])]]

\* fm is the winning set of a bucket: no set of the bucket has a higher
\* count, and every other set with the same count comes after it
Wins(bucket, fm) ==
  /\ fm \in DOMAIN bucket
  /\ \A other \in DOMAIN bucket :
       /\ bucket[other] <= bucket[fm]
       /\ (other # fm /\ bucket[other] = bucket[fm]) => FeatureMapLess(fm, other)

\* C5: TransformFeatures applies exactly one translation set of the bucket of
\* the canonical pair: one whose count no other set exceeds, the first in
\* iteration order among those; with an empty or missing bucket it outputs
\* nothing.
C5_MostObservedSetApplied ==
  lastT.op = "TransformFeatures" =>
    LET bucket == BucketAt(m_controllerMap, Needle(lastT.from, lastT.to))
    IN  IF DOMAIN bucket = {}
          THEN lastT.out = <<>>
          ELSE \E fm \in DOMAIN bucket :
                 /\ Wins(bucket, fm)
                 /\ lastT.out = Applied(fm, Swap(lastT.from, lastT.to), lastT.arg)

\* TransformFeatures chose between a set observed 5 times and one observed
\* 3 times and produced features
C5_Witness ==
  /\ lastT.op = "TransformFeatures"
  /\ lastT.out # <<>>
  /\ LET bucket == BucketAt(m_controllerMap, Needle(lastT.from, lastT.to))
     IN  \E fm1 \in DOMAIN bucket : \E fm2 \in DOMAIN bucket :
           bucket[fm1] = 5 /\ bucket[fm2] = 3

\* TransformFeatures chose between two sets with the same, highest count
C5_WitnessTie ==
  /\ lastT.op = "TransformFeatures"
  /\ lastT.out # <<>>
  /\ LET bucket == BucketAt(m_controllerMap, Needle(lastT.from, lastT.to))
     IN  \E fm1 \in DOMAIN bucket : \E fm2 \in DOMAIN bucket :
           fm1 # fm2 /\ Wins(bucket, fm1) /\ bucket[fm2] = bucket[fm1]

\* the pairs (f, g) of a feature of A and a feature of B with matching
\* primitives in a button map with both controllers
MatchingPairs(buttonMap) ==
  IF {"A", "B"} \subseteq DOMAIN buttonMap
    THEN {fg \in {<<buttonMap["A"][i], buttonMap["B"][j]>> :
                    i \in 1..Len(buttonMap["A"]), j \in 1..Len(buttonMap["B"])} :
            PrimitivesMatch(fg[1], fg[2])}
    ELSE {}

\* Transform(A, B, [f]) gives f under g's name, Transform(B, A, [g]) gives g
\* under f's name
BothDirections(f, g) ==
  /\ Transformed(m_controllerMap, "A", "B", <<f>>) = <<[f EXCEPT !.name = g.name]>>
  /\ Transformed(m_controllerMap, "B", "A", <<g>>) = <<[g EXCEPT !.name = f.name]>>

\* transforming fs from A to B and the result back to A gives the features
\* of fs that have an entry in the winning set of the (A, B) bucket
RoundTrip(fs) ==
  LET bucket == BucketAt(m_controllerMap, <<"A", "B">>)
      there  == Transformed(m_controllerMap, "A", "B", fs)
      back   == Transformed(m_controllerMap, "B", "A", there)
      kept   == {i \in 1..Len(fs) :
                   \E fm \in DOMAIN bucket :
                     Wins(bucket, fm) /\ fs[i].name \in {e[1] : e \in fm}}
  IN  /\ {back[i] : i \in 1..Len(back)} = {fs[i] : i \in kept}
      /\ Len(back) = Cardinality(kept)

\* C6 as stated: after OnAdd of a device whose button map has a feature f of
\* A and a feature g of B with equal primitives, Transform(A, B, [f]) gives
\* f renamed to g and Transform(B, A, [g]) gives g renamed to f, and a round
\* trip gives back the features with an entry in the winning set.
C6_SwapSymmetry ==
  /\ (lastT.op = "OnAdd" /\ lastT.accepted) =>
       \A fg \in MatchingPairs(lastT.map) : BothDirections(fg[1], fg[2])
  /\ \A fs \in TransformArgs : RoundTrip(fs)

\* C6 as amended: the two transformations give f renamed to g and g renamed
\* to f when the translation set recorded from that device is the winning
\* set of the (A, B) bucket; the round trip holds in every state.
C6_SwapSymmetryOfWinner ==
  /\ (/\ lastT.op = "OnAdd"
      /\ lastT.accepted
      /\ {"A", "B"} \subseteq DOMAIN lastT.map
      /\ Wins(BucketAt(m_controllerMap, <<"A", "B">>),
              TranslationSet(lastT.map["A"], lastT.map["B"]))) =>
       \A fg \in MatchingPairs(lastT.map) : BothDirections(fg[1], fg[2])
  /\ \A fs \in TransformArgs : RoundTrip(fs)

\* a device with matching features was observed, its translation set wins
\* against another set of the bucket, and a round trip keeps a feature
C6_Witness ==
  /\ lastT.op = "OnAdd"
  /\ lastT.accepted
  /\ MatchingPairs(lastT.map) # {}
  /\ LET bucket == BucketAt(m_controllerMap, <<"A", "B">>)
     IN  /\ Cardinality(DOMAIN bucket) >= 2
         /\ Wins(bucket, TranslationSet(lastT.map["A"], lastT.map["B"]))
  /\ \E fs \in TransformArgs :
       Transformed(m_controllerMap, "B", "A",
                   Transformed(m_controllerMap, "A", "B", fs)) # <<>>

\* C13: OnAdd of a device that is already observed changes neither the
\* observed devices nor any key, translation set or count of the controller
\* map, whatever button map is passed with it.
C13_RepeatedOnAddChangesNothing ==
  [][(lastT'.op = "OnAdd" /\ lastT'.device \in m_observedDevices)
       => UNCHANGED <<m_observedDevices, m_controllerMap>>]_vars

\* below the ceiling, OnAdd was called for an observed device with a button
\* map whose translation set the (A, B) bucket does not hold, and refused
C13_Witness ==
  /\ lastT.op = "OnAdd"
  /\ ~lastT.accepted
  /\ lastT.device \in m_observedDevices
  /\ ~SanityCheck(m_observedDevices)
  /\ {"A", "B"} \subseteq DOMAIN lastT.map
  /\ TranslationSet(lastT.map["A"], lastT.map["B"]) # {}
  /\ TranslationSet(lastT.map["A"], lastT.map["B"])
       \notin DOMAIN BucketAt(m_controllerMap, <<"A", "B">>)

\* C15: every key of the controller map has its first controller strictly
\* before its second: no key (X, X) and no reversed key.
C15_KeysStrictlyOrdered ==
  \A key \in DOMAIN m_controllerMap : StrLess(key[1], key[2])

\* the count of translation set fm under key in a controller map (0 when the
\* map does not hold it)
CountOf(controllerMap, key, fm) ==
  IF key \in DOMAIN controllerMap /\ fm \in DOMAIN controllerMap[key]
    THEN controllerMap[key][fm]
    ELSE 0

\* the translation sets under key whose count a step changes
Raised(key) ==
  {fm \in DOMAIN BucketAt(m_controllerMap', key) :
     CountOf(m_controllerMap', key, fm) # CountOf(m_controllerMap, key, fm)}

\* C16: every stored translation set is non-empty and has a count of at
\* least 1; no step removes a key or a translation set or lowers a count;
\* and one OnAdd call changes the count of at most one translation set per
\* key, raising it by exactly 1.
C16_TableGrowsMonotonically ==
  /\ [](\A key \in DOMAIN m_controllerMap : \A fm \in DOMAIN m_controllerMap[key] :
          fm # {} /\ m_controllerMap[key][fm] >= 1)
  /\ [][\A key \in DOMAIN m_controllerMap :
          /\ key \in DOMAIN m_controllerMap'
          /\ \A fm \in DOMAIN m_controllerMap[key] :
               /\ fm \in DOMAIN m_controllerMap'[key]
               /\ m_controllerMap'[key][fm] >= m_controllerMap[key][fm]]_vars
  /\ [][lastT'.op = "OnAdd" =>
          \A key \in DOMAIN m_controllerMap' :
            /\ Cardinality(Raised(key)) <= 1
            /\ \A fm \in Raised(key) :
                 CountOf(m_controllerMap', key, fm)
                   = CountOf(m_controllerMap, key, fm) + 1]_vars

\* an OnAdd call has raised counts under three keys, one of them the count
\* of a set observed before, in a bucket that holds another set too
C16_Witness ==
  /\ lastT.op = "OnAdd"
  /\ lastT.accepted
  /\ DOMAIN lastT.map = {"A", "B", "C"}
  /\ {<<"A", "B">>, <<"A", "C">>, <<"B", "C">>} \subseteq DOMAIN m_controllerMap
  /\ m_controllerMap[<<"A", "C">>][TranslationSet(lastT.map["A"], lastT.map["C"])] >= 2
  /\ Cardinality(DOMAIN m_controllerMap[<<"A", "B">>]) >= 2
  /\ \E key \in DOMAIN m_controllerMap : DOMAIN m_controllerMap[key] = {}

\* the sum of the counts of the translation sets fms of a bucket
RECURSIVE SumCounts(_, _)
SumCounts(bucket, fms) ==
  IF fms = {}
    THEN 0
    ELSE LET fm == CHOOSE x \in fms : TRUE
         IN  bucket[fm] + SumCounts(bucket, fms \ {fm})

\* C19: for every key of the controller map the counts of the translation
\* sets of its bucket add up to at most the number of observed devices.
C19_CountsBoundedByDevices ==
  \A key \in DOMAIN m_controllerMap :
    SumCounts(m_controllerMap[key], DOMAIN m_controllerMap[key])
      <= Cardinality(m_observedDevices)

\* every observed device has added to the (A, B) bucket, which holds three
\* translation sets, and a repeated OnAdd was refused
C19_Witness ==
  /\ <<"A", "B">> \in DOMAIN m_controllerMap
  /\ Cardinality(DOMAIN m_controllerMap[<<"A", "B">>]) = 3
  /\ SumCounts(m_controllerMap[<<"A", "B">>], DOMAIN m_controllerMap[<<"A", "B">>])
       = Cardinality(m_observedDevices)
  /\ Cardinality(m_observedDevices) >= 4
  /\ lastT.op = "OnAdd"
  /\ ~lastT.accepted

====
